---- MODULE Spec2Model ----
(***************************************************************************)
(* Model of src/localedata/qgis/TimezoneTableTasks.py: the three QGIS      *)
(* tasks that generate the timezone lookup tables.                         *)
(*                                                                         *)
(* Strings are sequences of code points, so that sorting, slicing and the  *)
(* character replacement of tzIdToEnum are computed as Python computes     *)
(* them.  A geometry is a set of disjoint cells of fixed area: area() is   *)
(* the sum of the cells' areas, intersection() is set intersection and     *)
(* intersects() is sharing a cell; the cell of area 0 is a shared boundary *)
(* line.  A generated file is the sequence of its data and comment lines;  *)
(* the fixed licence header and the closing brace are left out.            *)
(***************************************************************************)
EXTENDS Integers, Sequences, FiniteSets, TLC

VARIABLES
    TZID_MAP,                      \* config.TZID_MAP: tzid -> tzid
    ISO3166_1_MAP,                 \* config.ISO3166_1_MAP: code -> code
    ISO3166_1_DISAMBIGUATION_MAP,  \* config: list of <<preferred, secondary>>
    context,                       \* the dict shared by the three tasks
    files,                         \* file name -> content, once written
    result,                        \* task -> "none" | "ok" | the fault raised
    runs,                          \* task -> number of times run() was called
    countries,                     \* the set handed to disambiguateCountries
    disOut                         \* what lines 240-244 made of it

vars == <<TZID_MAP, ISO3166_1_MAP, ISO3166_1_DISAMBIGUATION_MAP, context,
          files, result, runs, countries, disOut>>

config == <<TZID_MAP, ISO3166_1_MAP, ISO3166_1_DISAMBIGUATION_MAP>>

----------------------------------------------------------------------------
(* Bounds of the model *)

MaxRuns == 2
MaxStrFeatures == 3
MaxRegionFeatures == 4
MaxSubdivFeatures == 5
MaxTzCountryFeatures == 4
MaxTableFeatures == 5
MaxFeatures == 4
MaxPairs == 2

----------------------------------------------------------------------------
(* Characters and strings *)

Slash == 47
Dash == 45
Underscore == 95

\* "Undefined"
UndefinedName == <<85, 110, 100, 101, 102, 105, 110, 101, 100>>

\* Python's str '<': lexicographic on code points, a proper prefix is smaller.
RECURSIVE StrLess(_, _)
StrLess(a, b) ==
    IF b = <<>> THEN FALSE
    ELSE IF a = <<>> THEN TRUE
    ELSE IF a[1] # b[1] THEN a[1] < b[1]
    ELSE StrLess(Tail(a), Tail(b))

\* str.replace(old, new) for single characters
StrReplace(s, old, new) ==
    [i \in 1..Len(s) |-> IF s[i] = old THEN new ELSE s[i]]

tzIdToEnum(tzId) ==
    StrReplace(StrReplace(tzId, Slash, Underscore), Dash, Underscore)

\* code[:2]
Prefix2(code) ==
    SubSeq(code, 1, IF Len(code) < 2 THEN Len(code) ELSE 2)

----------------------------------------------------------------------------
(* list(set) and list.sort() *)

\* The order in which Python iterates a set of strings depends on the
\* process's hash seed; the two seeds stand for two different orders.
HashSeeds == {0, 1}

RECURSIVE AscendingList(_)
AscendingList(S) ==
    IF S = {} THEN <<>>
    ELSE LET m == CHOOSE x \in S : \A y \in S \ {x} : StrLess(x, y)
         IN  <<m>> \o AscendingList(S \ {m})

Reverse(s) ==
    [i \in 1..Len(s) |-> s[Len(s) + 1 - i]]

ListOfSet(S, seed) ==
    IF seed = 0 THEN AscendingList(S) ELSE Reverse(AscendingList(S))

RECURSIVE InsertStr(_, _)
InsertStr(sorted, x) ==
    IF sorted = <<>> THEN <<x>>
    ELSE IF StrLess(x, sorted[1]) THEN <<x>> \o sorted
    ELSE <<sorted[1]>> \o InsertStr(Tail(sorted), x)

RECURSIVE SortStr(_)
SortStr(list) ==
    IF list = <<>> THEN <<>>
    ELSE InsertStr(SortStr(SubSeq(list, 1, Len(list) - 1)), list[Len(list)])

----------------------------------------------------------------------------
(* TimezoneStringTableTask.run *)

NameTableFile == "timezone_name_table.cpp"
NamesFile == "timezone_names_p.h"

\* lines 33-37: the distinct tzid values, sorted
SortedTzIds(tzLayer, seed) ==
    SortStr(ListOfSet({tzLayer[i].tzid : i \in 1..Len(tzLayer)}, seed))

\* Variant: line 52 without the null byte, offsets[-1] + len(tzId)
RECURSIVE OffsetsNoNul(_)
OffsetsNoNul(tzIds) ==
    IF tzIds = <<>> THEN <<0>>
    ELSE LET o == OffsetsNoNul(SubSeq(tzIds, 1, Len(tzIds) - 1))
         IN  Append(o, o[Len(o)] + Len(tzIds[Len(tzIds)]))

\* lines 38, 50-52: offsets = [0]; offsets.append(offsets[-1] + len(tzId) + 1)
RECURSIVE Offsets(_)
Offsets(tzIds) ==
    IF tzIds = <<>> THEN <<0>>
    ELSE LET o == Offsets(SubSeq(tzIds, 1, Len(tzIds) - 1))
         IN  Append(o, o[Len(o)] + Len(tzIds[Len(tzIds)]) + 1)

\* lines 50-51: the bytes of timezone_name_table[], "tzId\0" per identifier
RECURSIVE NameTable(_)
NameTable(tzIds) ==
    IF tzIds = <<>> THEN <<>>
    ELSE tzIds[1] \o <<0>> \o NameTable(Tail(tzIds))

\* lines 72-74: the enumerators of enum Tz
EnumLines(tzIds, offsets) ==
    [i \in 1..(Len(tzIds) + 1) |->
        IF i <= Len(tzIds)
        THEN [name |-> tzIdToEnum(tzIds[i]), value |-> offsets[i]]
        ELSE [name |-> UndefinedName, value |-> offsets[Len(offsets)] - 1]]

Bump(task) ==
    runs' = [runs EXCEPT ![task] = @ + 1]

StringTableRun ==
    /\ runs["string"] < MaxRuns
    /\ \E seed \in HashSeeds :
        LET tzIds == SortedTzIds(context["tzLayer"], seed)
            offsets == Offsets(tzIds)
        IN  files' = (NameTableFile :> NameTable(tzIds))
                     @@ (NamesFile :> EnumLines(tzIds, offsets))
                     @@ files
    /\ result' = [result EXCEPT !["string"] = "ok"]
    /\ Bump("string")
    /\ UNCHANGED <<config, context, countries, disOut>>

----------------------------------------------------------------------------
(* Python dicts: entries in insertion order *)

DictKeys(d) == [i \in 1..Len(d) |-> d[i].key]

DictHas(d, k) == \E i \in 1..Len(d) : d[i].key = k

DictGet(d, k) == d[CHOOSE i \in 1..Len(d) : d[i].key = k].value

\* d[k] = v
DictSet(d, k, v) ==
    IF DictHas(d, k)
    THEN [i \in 1..Len(d) |-> IF d[i].key = k THEN [key |-> k, value |-> v] ELSE d[i]]
    ELSE Append(d, [key |-> k, value |-> v])

----------------------------------------------------------------------------
(* Geometry, as the host engine computes it *)

CellArea == [line |-> 0, small |-> 1, mid |-> 9, large |-> 99]

RECURSIVE Area(_)
Area(geom) ==
    IF geom = {} THEN 0
    ELSE LET c == CHOOSE x \in geom : TRUE
         IN  CellArea[c] + Area(geom \ {c})

Intersects(g, h) == g \cap h # {}

\* area / tzArea > 0.01 is area * 100 > tzArea, area / regionArea > 0.1 is
\* area * 10 > regionArea (areas of polygons are positive)
TzRatioInverse == 100
RegionRatioInverse == 10

\* Variant: line 103 without the region's ratio
RatioTestTzOnly(area, tzArea, regionArea) ==
    area * TzRatioInverse > tzArea

RatioTest(area, tzArea, regionArea) ==
    \/ area * TzRatioInverse > tzArea
    \/ area * RegionRatioInverse > regionArea

\* lines 98-103, 144-149, 215-220: the dual-threshold test of one timezone
\* geometry against one region geometry
Qualifies(tzGeom, regionGeom) ==
    /\ Intersects(tzGeom, regionGeom)
    /\ RatioTest(Area(tzGeom \cap regionGeom), Area(tzGeom), Area(regionGeom))

normalizedTz(tzId) ==
    IF tzId \in DOMAIN TZID_MAP THEN TZID_MAP[tzId] ELSE tzId

normalizedCountry(code) ==
    IF code \in DOMAIN ISO3166_1_MAP THEN ISO3166_1_MAP[code] ELSE code

----------------------------------------------------------------------------
(* RegionToTimezoneMapTask.run *)

CountryFile == "country_timezone_map.cpp"
SubdivFile == "subdivision_timezone_map.cpp"

Row(key, val) == [kind |-> "row", key |-> key, val |-> val]
Comment(key) == [kind |-> "comment", key |-> key, val |-> <<>>]

\* lines 96-104: what one country feature adds to its set
QualifyingTz(tzLayer, geom) ==
    {normalizedTz(tzLayer[i].tzid) :
        i \in {j \in 1..Len(tzLayer) : Qualifies(tzLayer[j].geom, geom)}}

\* lines 89-104
RECURSIVE CountryToTz(_, _)
CountryToTz(countryLayer, tzLayer) ==
    IF countryLayer = <<>> THEN <<>>
    ELSE LET n == Len(countryLayer)
             d == CountryToTz(SubSeq(countryLayer, 1, n - 1), tzLayer)
             countryCode == countryLayer[n].code
             old == IF DictHas(d, countryCode) THEN DictGet(d, countryCode) ELSE {}
         IN  DictSet(d, countryCode, old \cup QualifyingTz(tzLayer, countryLayer[n].geom))

\* lines 122-124
CountryLine(countryToTz, country, seed) ==
    LET tzs == DictGet(countryToTz, country)
    IN  IF Cardinality(tzs) = 1
        THEN <<Row(country, tzIdToEnum(ListOfSet(tzs, seed)[1]))>>
        ELSE <<>>

RECURSIVE CountryLinesFor(_, _, _)
CountryLinesFor(countryToTz, list, seed) ==
    IF list = <<>> THEN <<>>
    ELSE CountryLine(countryToTz, list[1], seed)
         \o CountryLinesFor(countryToTz, Tail(list), seed)

\* lines 120-124
CountryLines(countryToTz, seed) ==
    CountryLinesFor(countryToTz, SortStr(DictKeys(countryToTz)), seed)

\* lines 135-136: countryToTz[country] raises KeyError
SubdivKeyError(subdivLayer, countryToTz) ==
    \E i \in 1..Len(subdivLayer) :
        ~DictHas(countryToTz, Prefix2(subdivLayer[i].code))

\* Variant: line 153 as an assignment, the last match replacing the sum
AddAreaOverwrite(areas, tzId, area) ==
    DictSet(areas, tzId, area)

\* lines 150-153
AddArea(areas, tzId, area) ==
    IF ~DictHas(areas, tzId)
    THEN DictSet(areas, tzId, area)
    ELSE DictSet(areas, tzId, DictGet(areas, tzId) + area)

\* lines 142-153
RECURSIVE SubdivAreas(_, _, _)
SubdivAreas(areas, tzLayer, subdivGeom) ==
    IF tzLayer = <<>> THEN areas
    ELSE LET tz == tzLayer[1]
             added == IF Qualifies(tz.geom, subdivGeom)
                      THEN AddArea(areas, normalizedTz(tz.tzid),
                                   Area(tz.geom \cap subdivGeom))
                      ELSE areas
         IN  SubdivAreas(added, Tail(tzLayer), subdivGeom)

\* lines 130-153, when no lookup raises
RECURSIVE SubdivToTz(_, _, _)
SubdivToTz(subdivLayer, tzLayer, countryToTz) ==
    IF subdivLayer = <<>> THEN <<>>
    ELSE LET n == Len(subdivLayer)
             d == SubdivToTz(SubSeq(subdivLayer, 1, n - 1), tzLayer, countryToTz)
             code == subdivLayer[n].code
             old == IF DictHas(d, code) THEN DictGet(d, code) ELSE <<>>
         IN  IF Cardinality(DictGet(countryToTz, Prefix2(code))) <= 1
             THEN d
             ELSE DictSet(d, code, SubdivAreas(old, tzLayer, subdivLayer[n].geom))

\* Variant: the timezones of a subdivision kept in a set, so that timezones
\* of equal area come in the order of the hash seed
RECURSIVE InsertByAreaSeeded(_, _, _)
InsertByAreaSeeded(sorted, e, seed) ==
    IF sorted = <<>> THEN <<e>>
    ELSE IF \/ sorted[1].value > e.value
            \/ sorted[1].value = e.value /\ seed = 0
         THEN <<sorted[1]>> \o InsertByAreaSeeded(Tail(sorted), e, seed)
         ELSE <<e>> \o sorted

\* line 174: list.sort(key = area, reverse = True) is stable
RECURSIVE InsertByArea(_, _)
InsertByArea(sorted, e) ==
    IF sorted = <<>> THEN <<e>>
    ELSE IF sorted[1].value >= e.value
         THEN <<sorted[1]>> \o InsertByArea(Tail(sorted), e)
         ELSE <<e>> \o sorted

\* Variant of lines 173-174 that sorts with it
RECURSIVE SortByAreaSeeded(_, _)
SortByAreaSeeded(areas, seed) ==
    IF areas = <<>> THEN <<>>
    ELSE InsertByAreaSeeded(SortByAreaSeeded(SubSeq(areas, 1, Len(areas) - 1), seed),
                            areas[Len(areas)], seed)

\* lines 173-174; the seed is not read
RECURSIVE SortByArea(_, _)
SortByArea(areas, seed) ==
    IF areas = <<>> THEN <<>>
    ELSE InsertByArea(SortByArea(SubSeq(areas, 1, Len(areas) - 1), seed),
                      areas[Len(areas)])

\* lines 173-178
SubdivLine(subdivToTz, subdiv, seed) ==
    LET tzs == DictKeys(SortByArea(DictGet(subdivToTz, subdiv), seed))
    IN  [i \in 1..Len(tzs) |-> Row(subdiv, tzIdToEnum(tzs[i]))]
        \o (IF Len(DictGet(subdivToTz, subdiv)) = 0 THEN <<Comment(subdiv)>> ELSE <<>>)

RECURSIVE SubdivLinesFor(_, _, _)
SubdivLinesFor(subdivToTz, list, seed) ==
    IF list = <<>> THEN <<>>
    ELSE SubdivLine(subdivToTz, list[1], seed)
         \o SubdivLinesFor(subdivToTz, Tail(list), seed)

\* lines 169-178
SubdivLines(subdivToTz, seed) ==
    SubdivLinesFor(subdivToTz, SortStr(DictKeys(subdivToTz)), seed)

\* Variant: line 183 moved before the subdivision stage
ContextAfterFaultEarly(ctx, countryToTz) ==
    ("countryToTimezoneMap" :> countryToTz) @@ ctx

\* A run that raises at line 131 or 136 never reaches lines 183-184
ContextAfterFault(ctx, countryToTz) ==
    ctx

\* lines 183-184
ContextAfterRun(ctx, countryToTz, subdivToTz) ==
    ("countryToTimezoneMap" :> countryToTz)
    @@ ("subdivisionToTimezoneMap" :> subdivToTz) @@ ctx

RegionRun ==
    /\ runs["region"] < MaxRuns
    /\ \E seed \in HashSeeds :
        LET countryToTz == CountryToTz(context["countryLayer"], context["tzLayer"])
            written == (CountryFile :> CountryLines(countryToTz, seed)) @@ files
        IN  IF \/ "subdivLayer" \notin DOMAIN context
               \/ SubdivKeyError(context["subdivLayer"], countryToTz)
            THEN /\ files' = written
                 /\ result' = [result EXCEPT !["region"] = "KeyError"]
                 /\ context' = ContextAfterFault(context, countryToTz)
            ELSE LET subdivToTz == SubdivToTz(context["subdivLayer"],
                                              context["tzLayer"], countryToTz)
                 IN  /\ files' = (SubdivFile :> SubdivLines(subdivToTz, seed)) @@ written
                     /\ result' = [result EXCEPT !["region"] = "ok"]
                     /\ context' = ContextAfterRun(context, countryToTz, subdivToTz)
    /\ Bump("region")
    /\ UNCHANGED <<config, countries, disOut>>

----------------------------------------------------------------------------
(* TimezoneToCountryMapTask *)

TzCountryFile == "timezone_country_map.cpp"

\* lines 196-200
RECURSIVE DropSecondary(_, _)
DropSecondary(map, set) ==
    IF map = <<>> THEN set
    ELSE IF map[1][1] \in set /\ map[1][2] \in set
         THEN set \ {map[1][2]}
         ELSE DropSecondary(Tail(map), set)

\* Variant: the list scanned from its end
disambiguateLastPair(set) ==
    IF Cardinality(set) # 2 THEN set
    ELSE DropSecondary(Reverse(ISO3166_1_DISAMBIGUATION_MAP), set)

\* lines 193-200
disambiguateCountries(set) ==
    IF Cardinality(set) # 2 THEN set
    ELSE DropSecondary(ISO3166_1_DISAMBIGUATION_MAP, set)

\* lines 213-221: the codes one timezone feature adds to its set
QualifyingCountries(countryLayer, tzGeom) ==
    {normalizedCountry(countryLayer[i].code) :
        i \in {j \in 1..Len(countryLayer) :
                /\ normalizedCountry(countryLayer[j].code) # <<>>
                /\ Qualifies(tzGeom, countryLayer[j].geom)}}

\* lines 206-221.  Line 211 tests the feature tz, never a key of the dict, so
\* line 212 runs for every feature
RECURSIVE TzToCountry(_, _)
TzToCountry(tzLayer, countryLayer) ==
    IF tzLayer = <<>> THEN <<>>
    ELSE LET n == Len(tzLayer)
             d == TzToCountry(SubSeq(tzLayer, 1, n - 1), countryLayer)
         IN  DictSet(d, tzLayer[n].tzid,
                     {} \cup QualifyingCountries(countryLayer, tzLayer[n].geom))

\* lines 241-244
TzCountryLine(tzId, set, seed) ==
    IF Cardinality(set) = 1
    THEN Row(tzIdToEnum(tzId), ListOfSet(set, seed)[1])
    ELSE Comment(tzIdToEnum(tzId))

\* Variant: without line 238
TzCountryLinesUnsorted(tzToCountry, seed) ==
    LET tzIds == DictKeys(tzToCountry)
    IN  [i \in 1..Len(tzIds) |->
            TzCountryLine(tzIds[i],
                          disambiguateCountries(DictGet(tzToCountry, tzIds[i])), seed)]

\* lines 237-244
TzCountryLines(tzToCountry, seed) ==
    LET tzIds == SortStr(DictKeys(tzToCountry))
    IN  [i \in 1..Len(tzIds) |->
            TzCountryLine(tzIds[i],
                          disambiguateCountries(DictGet(tzToCountry, tzIds[i])), seed)]

TzCountryRun ==
    /\ runs["tzcountry"] < MaxRuns
    /\ \E seed \in HashSeeds :
        files' = (TzCountryFile :>
                    TzCountryLines(TzToCountry(context["tzLayer"],
                                               context["countryLayer"]), seed))
                 @@ files
    /\ result' = [result EXCEPT !["tzcountry"] = "ok"]
    /\ Bump("tzcountry")
    /\ UNCHANGED <<config, context, countries, disOut>>

\* disambiguateCountries and lines 240-244 on one set
DisambiguateStep ==
    /\ disOut = <<>>
    /\ \E seed \in HashSeeds :
        LET set == disambiguateCountries(countries)
        IN  disOut' = <<[set |-> set, line |-> TzCountryLine(<<>>, set, seed)]>>
    /\ UNCHANGED <<config, context, files, result, runs, countries>>

\* The first run of each task
StringTableOnce == result["string"] = "none" /\ StringTableRun
RegionOnce == result["region"] = "none" /\ RegionRun
TzCountryOnce == result["tzcountry"] = "none" /\ TzCountryRun

----------------------------------------------------------------------------
(* Inputs *)

Tasks == {"string", "region", "tzcountry"}

RECURSIVE SeqsUpTo(_, _)
SeqsUpTo(S, n) ==
    IF n = 0 THEN {<<>>}
    ELSE LET shorter == SeqsUpTo(S, n - 1)
         IN  shorter \cup {Append(s, x) : s \in {t \in shorter : Len(t) = n - 1}, x \in S}

NoMap == [k \in {} |-> <<>>]

InitState ==
    /\ files = [f \in {} |-> <<>>]
    /\ result = [t \in Tasks |-> "none"]
    /\ runs = [t \in Tasks |-> 0]

NoDisambiguation ==
    /\ countries = {}
    /\ disOut = <<>>

\* "A", "AB", "A-B", "A/B", "A_B", "B/A-C": identifiers of several lengths,
\* one a prefix of the others, three that differ in '-', '/' and '_' only
StrIds == {<<65>>, <<65, 66>>, <<65, 45, 66>>, <<65, 47, 66>>, <<65, 95, 66>>,
           <<66, 47, 65, 45, 67>>}

InitStr ==
    /\ TZID_MAP = NoMap
    /\ ISO3166_1_MAP = NoMap
    /\ ISO3166_1_DISAMBIGUATION_MAP = <<>>
    /\ \E layer \in SeqsUpTo(StrIds, MaxStrFeatures) :
        context = ("tzLayer" :> [i \in 1..Len(layer) |-> [tzid |-> layer[i], geom |-> {"small"}]])
                  @@ ("countryLayer" :> <<>>)
    /\ InitState
    /\ NoDisambiguation

NextStr == StringTableOnce

SpecStr == InitStr /\ [][NextStr]_vars

\* "A/B", "A-B", "C", "D"
AslashB == <<65, 47, 66>>
AdashB == <<65, 45, 66>>
TzC == <<67>>
TzD == <<68>>

\* "XA", "XB", "XA-1", "XA-2", "ZZ-1"
XA == <<88, 65>>
XB == <<88, 66>>
XA1 == <<88, 65, 45, 49>>
XA2 == <<88, 65, 45, 50>>
ZZ1 == <<90, 90, 45, 49>>

Features(codes, geoms) == {[code |-> c, geom |-> g] : c \in codes, g \in geoms}

TzFeatures(ids, geoms) == {[tzid |-> t, geom |-> g] : t \in ids, g \in geoms}

\* The contexts the external setup code can leave: the timezone and country
\* layers loaded, the subdivision layer loaded or not, at most maxFeatures
\* features in all
Contexts(tzPool, countryPool, subdivPool, maxFeatures) ==
    UNION {UNION {
        {("tzLayer" :> tz) @@ ("countryLayer" :> co)}
        \cup {("tzLayer" :> tz) @@ ("countryLayer" :> co) @@ ("subdivLayer" :> sd) :
                sd \in SeqsUpTo(subdivPool, maxFeatures - Len(tz) - Len(co))}
        : co \in SeqsUpTo(countryPool, maxFeatures - Len(tz))}
        : tz \in SeqsUpTo(tzPool, maxFeatures)}

\* no entry, two identifiers of the layer merged, an identifier mapped to one
\* that no feature carries
MergeTz == TzC :> AslashB
ForeignTz == TzC :> TzD

Small == {"small"}
Region == {"line", "small", "mid"}

\* Countries against timezones: a timezone inside the region, one that
\* covers a hundredth of its own area and a tenth of the region's, and one
\* that shares a boundary only
InitRegion ==
    /\ TZID_MAP \in {NoMap, MergeTz}
    /\ ISO3166_1_MAP = NoMap
    /\ ISO3166_1_DISAMBIGUATION_MAP = <<>>
    /\ context \in Contexts(
            TzFeatures({AslashB, TzC}, {Small, {"small", "large"}, {"line", "large"}}),
            Features({XA, XB}, {Region, Small}),
            Features({XA1, ZZ1}, {Small}),
            MaxRegionFeatures)
    /\ InitState
    /\ NoDisambiguation

NextRegion == RegionOnce

SpecRegion == InitRegion /\ [][NextRegion]_vars

\* Subdivisions of one country against timezones
InitSubdiv ==
    /\ TZID_MAP \in {NoMap, MergeTz}
    /\ ISO3166_1_MAP = NoMap
    /\ ISO3166_1_DISAMBIGUATION_MAP = <<>>
    /\ context \in Contexts(
            TzFeatures({AslashB, TzC}, {Small, {"small", "mid"}}),
            Features({XA}, {Region}),
            Features({XA1, XA2}, {Region, Small}),
            MaxSubdivFeatures)
    /\ InitState
    /\ NoDisambiguation

NextSubdiv == RegionOnce

SpecSubdiv == InitSubdiv /\ [][NextSubdiv]_vars

OrderedPairs(codes) == {p \in codes \X codes : p[1] # p[2]}

\* Timezones against countries
InitTzCountry ==
    /\ TZID_MAP = NoMap
    /\ ISO3166_1_MAP \in {NoMap, XB :> XA, XB :> <<>>}
    /\ ISO3166_1_DISAMBIGUATION_MAP \in {<<>>, <<<<XA, XB>>>>}
    /\ context \in Contexts(
            TzFeatures({AslashB, TzC}, {Small, {"small", "large"}, {"line", "large"}}),
            Features({XA, XB}, {Region, Small}),
            {},
            MaxTzCountryFeatures)
    /\ InitState
    /\ NoDisambiguation

NextTzCountry == TzCountryOnce

SpecTzCountry == InitTzCountry /\ [][NextTzCountry]_vars

\* disambiguateCountries on every set of three codes
InitDis ==
    /\ TZID_MAP = NoMap
    /\ ISO3166_1_MAP = NoMap
    /\ ISO3166_1_DISAMBIGUATION_MAP \in SeqsUpTo(OrderedPairs({XA, XB, XA1}), MaxPairs)
    /\ context = ("tzLayer" :> <<>>) @@ ("countryLayer" :> <<>>)
    /\ InitState
    /\ countries \in SUBSET {XA, XB, XA1}
    /\ disOut = <<>>

NextDis == DisambiguateStep

SpecDis == InitDis /\ [][NextDis]_vars

\* The four tables of one data refresh, each task run once in any order
InitTables ==
    /\ TZID_MAP = NoMap
    /\ ISO3166_1_MAP = NoMap
    /\ ISO3166_1_DISAMBIGUATION_MAP = <<>>
    /\ context \in Contexts(
            TzFeatures({AslashB, AdashB, TzC}, {Small}),
            Features({XA, XB}, {Small}),
            Features({XA1, XA2}, {Small}),
            MaxTableFeatures)
    /\ InitState
    /\ NoDisambiguation

NextTables ==
    \/ StringTableOnce
    \/ RegionOnce
    \/ TzCountryOnce

SpecTables == InitTables /\ [][NextTables]_vars

\* Any sequence of runs of the three tasks over one context
Init ==
    /\ TZID_MAP \in {NoMap, MergeTz, ForeignTz}
    /\ ISO3166_1_MAP = NoMap
    /\ ISO3166_1_DISAMBIGUATION_MAP \in {<<>>, <<<<XA, XB>>>>}
    /\ context \in Contexts(
            TzFeatures({AslashB, TzC}, {Small}),
            Features({XA, XB}, {Small}),
            Features({XA1, ZZ1}, {Small}),
            MaxFeatures)
    /\ InitState
    /\ NoDisambiguation

Next ==
    \/ StringTableRun
    \/ RegionRun
    \/ TzCountryRun

Spec == Init /\ [][Next]_vars

----------------------------------------------------------------------------
(* Claims about the string table *)

LayerTzIds == {context["tzLayer"][i].tzid : i \in 1..Len(context["tzLayer"])}

RECURSIVE BytesOf(_)
BytesOf(ids) ==
    IF ids = {} THEN 0
    ELSE LET t == CHOOSE x \in ids : TRUE
         IN  Len(t) + 1 + BytesOf(ids \ {t})

\* Where the identifier starts in the blob: the bytes of the identifiers
\* sorted before it, each with its null byte
StartOf(tzId) == BytesOf({u \in LayerTzIds : StrLess(u, tzId)})

\* C1: the enum value written for each identifier of the layer is the index
\* in the blob at which the identifier, followed by its null byte, starts,
\* which is the sum of len + 1 over the identifiers sorted before it; the
\* value written for Undefined is len(blob) - 1.
C1_OffsetsPointIntoBlob ==
    result["string"] = "ok" =>
        LET blob == files[NameTableFile]
            enum == files[NamesFile]
        IN  /\ Len(blob) = BytesOf(LayerTzIds)
            /\ Len(enum) = Cardinality(LayerTzIds) + 1
            /\ \A tzId \in LayerTzIds :
                /\ \E i \in 1..(Len(enum) - 1) :
                    /\ enum[i].name = tzIdToEnum(tzId)
                    /\ enum[i].value = StartOf(tzId)
                /\ SubSeq(blob, StartOf(tzId) + 1, StartOf(tzId) + Len(tzId) + 1)
                   = tzId \o <<0>>
            /\ \A i \in 1..(Len(enum) - 1) :
                \E tzId \in LayerTzIds :
                    /\ enum[i].name = tzIdToEnum(tzId)
                    /\ enum[i].value = StartOf(tzId)
            /\ enum[Len(enum)] = [name |-> UndefinedName, value |-> Len(blob) - 1]

\* Three identifiers of different lengths are in the table
C1_Witness ==
    /\ result["string"] = "ok"
    /\ Cardinality(LayerTzIds) >= 3
    /\ \E t, u \in LayerTzIds : Len(t) # Len(u)
    /\ files[NamesFile][3].value > files[NamesFile][2].value + 2

\* C10: no two enumerators of enum Tz have the same name.
C10_DistinctEnumerators ==
    result["string"] = "ok" =>
        \A i, j \in 1..Len(files[NamesFile]) :
            i # j => files[NamesFile][i].name # files[NamesFile][j].name

----------------------------------------------------------------------------
(* Claims about the region tables *)

TzLayer == context["tzLayer"]
CountryLayer == context["countryLayer"]
SubdivLayer == context["subdivLayer"]

\* The dual-threshold rule: the geometries intersect, and the intersection
\* is more than 1% of the timezone's area or more than 10% of the region's
Overlaps(tzGeom, regionGeom) ==
    /\ tzGeom \cap regionGeom # {}
    /\ \/ Area(tzGeom \cap regionGeom) * 100 > Area(tzGeom)
       \/ Area(tzGeom \cap regionGeom) * 10 > Area(regionGeom)

\* The qualifying timezones of a country code
QualifyingOf(code) ==
    {normalizedTz(TzLayer[j].tzid) :
        j \in {k \in 1..Len(TzLayer) :
                \E i \in 1..Len(CountryLayer) :
                    /\ CountryLayer[i].code = code
                    /\ Overlaps(TzLayer[k].geom, CountryLayer[i].geom)}}

LinesOf(file, key) ==
    {i \in 1..Len(files[file]) : files[file][i].key = key}

DataRowsOf(file, key) ==
    {i \in LinesOf(file, key) : files[file][i].kind = "row"}

\* C3: a country code of the layer with exactly one qualifying timezone has
\* exactly one data row in country_timezone_map, mapping it to that timezone.
C3_SingleTimezoneCountryRow ==
    CountryFile \in DOMAIN files =>
        \A i \in 1..Len(CountryLayer) :
            LET code == CountryLayer[i].code
            IN  Cardinality(QualifyingOf(code)) = 1 =>
                    /\ Cardinality(DataRowsOf(CountryFile, code)) = 1
                    /\ \A r \in DataRowsOf(CountryFile, code) :
                        \A t \in QualifyingOf(code) :
                            files[CountryFile][r].val = tzIdToEnum(t)

\* A country whose one qualifying timezone comes from two features, next to
\* a country with another number of timezones
C3_Witness ==
    /\ CountryFile \in DOMAIN files
    /\ \E i \in 1..Len(CountryLayer) :
        /\ Cardinality(QualifyingOf(CountryLayer[i].code)) = 1
        /\ Cardinality({k \in 1..Len(TzLayer) :
                          Overlaps(TzLayer[k].geom, CountryLayer[i].geom)}) = 2
        /\ DataRowsOf(CountryFile, CountryLayer[i].code) # {}

StartsWith(s, prefix) ==
    /\ Len(s) >= Len(prefix)
    /\ SubSeq(s, 1, Len(prefix)) = prefix

\* The matches of a subdivision code with a normalized timezone: pairs of a
\* subdivision feature and a timezone feature that pass the rule
MatchesOf(code, tzId) ==
    {m \in (1..Len(SubdivLayer)) \X (1..Len(TzLayer)) :
        /\ SubdivLayer[m[1]].code = code
        /\ normalizedTz(TzLayer[m[2]].tzid) = tzId
        /\ Overlaps(TzLayer[m[2]].geom, SubdivLayer[m[1]].geom)}

MatchingTzOf(code) ==
    {normalizedTz(TzLayer[j].tzid) : j \in 1..Len(TzLayer)}
    \cap {t \in {normalizedTz(TzLayer[j].tzid) : j \in 1..Len(TzLayer)} :
            MatchesOf(code, t) # {}}

RECURSIVE SumOfAreas(_)
SumOfAreas(matches) ==
    IF matches = {} THEN 0
    ELSE LET m == CHOOSE x \in matches : TRUE
         IN  Area(TzLayer[m[2]].geom \cap SubdivLayer[m[1]].geom)
             + SumOfAreas(matches \ {m})

CumulativeArea(code, tzId) == SumOfAreas(MatchesOf(code, tzId))

\* C4: a country with more than one qualifying timezone has no row in
\* country_timezone_map, and each subdivision of the layer whose code starts
\* with the country's code is in subdivision_timezone_map with one row per
\* matching timezone, its rows in order of descending cumulative area.
C4_MultiTimezoneCountrySubdivisions ==
    result["region"] = "ok" =>
        \A i \in 1..Len(CountryLayer) :
            LET country == CountryLayer[i].code
            IN  Cardinality(QualifyingOf(country)) > 1 =>
                /\ DataRowsOf(CountryFile, country) = {}
                /\ \A k \in 1..Len(SubdivLayer) :
                    LET code == SubdivLayer[k].code
                        rows == DataRowsOf(SubdivFile, code)
                        file == files[SubdivFile]
                    IN  StartsWith(code, country) =>
                        /\ LinesOf(SubdivFile, code) # {}
                        /\ Cardinality(rows) = Cardinality(MatchingTzOf(code))
                        /\ {file[r].val : r \in rows}
                           = {tzIdToEnum(t) : t \in MatchingTzOf(code)}
                        /\ \A r1, r2 \in rows : \A t1, t2 \in MatchingTzOf(code) :
                            /\ r1 < r2
                            /\ file[r1].val = tzIdToEnum(t1)
                            /\ file[r2].val = tzIdToEnum(t2)
                            => CumulativeArea(code, t1) >= CumulativeArea(code, t2)

\* A subdivision with two rows, whose first timezone has the bigger area
\* only because its matches are summed
C4_Witness ==
    /\ result["region"] = "ok"
    /\ \E k \in 1..Len(SubdivLayer) :
        LET code == SubdivLayer[k].code
        IN  /\ Cardinality(DataRowsOf(SubdivFile, code)) = 2
            /\ \E t1, t2 \in MatchingTzOf(code) :
                /\ CumulativeArea(code, t1) > CumulativeArea(code, t2)
                /\ Cardinality(MatchesOf(code, t1)) = 2
                /\ \A m \in MatchesOf(code, t1) :
                    Area(TzLayer[m[2]].geom \cap SubdivLayer[m[1]].geom)
                    <= CumulativeArea(code, t2)

----------------------------------------------------------------------------
(* Claims about the timezone to country table *)

\* The normalized non-empty codes of the countries that pass the rule
\* against some feature carrying the identifier
CountriesOf(tzId) ==
    {normalizedCountry(CountryLayer[i].code) :
        i \in {k \in 1..Len(CountryLayer) :
                /\ normalizedCountry(CountryLayer[k].code) # <<>>
                /\ \E j \in 1..Len(TzLayer) :
                    /\ TzLayer[j].tzid = tzId
                    /\ Overlaps(TzLayer[j].geom, CountryLayer[k].geom)}}

\* The pairs of the disambiguation list with both members in the set
PairsIn(set) ==
    {i \in 1..Len(ISO3166_1_DISAMBIGUATION_MAP) :
        /\ ISO3166_1_DISAMBIGUATION_MAP[i][1] \in set
        /\ ISO3166_1_DISAMBIGUATION_MAP[i][2] \in set}

FirstPairIn(set) ==
    ISO3166_1_DISAMBIGUATION_MAP[CHOOSE i \in PairsIn(set) :
                                    \A k \in PairsIn(set) : i <= k]

Disambiguated(set) ==
    IF Cardinality(set) = 2 /\ PairsIn(set) # {}
    THEN set \ {FirstPairIn(set)[2]}
    ELSE set

\* C5: an identifier of the layer whose countries, over all the features
\* carrying it and after disambiguation, are exactly one has exactly one data
\* row in timezone_country_map, mapping it to that country; any other
\* identifier has a comment placeholder and no data row.
C5_OneRowPerResolvedTimezone ==
    result["tzcountry"] = "ok" =>
        \A j \in 1..Len(TzLayer) :
            LET name == tzIdToEnum(TzLayer[j].tzid)
                S == Disambiguated(CountriesOf(TzLayer[j].tzid))
                file == files[TzCountryFile]
            IN  IF Cardinality(S) = 1
                THEN /\ Cardinality(DataRowsOf(TzCountryFile, name)) = 1
                     /\ \A r \in DataRowsOf(TzCountryFile, name) : file[r].val \in S
                ELSE /\ DataRowsOf(TzCountryFile, name) = {}
                     /\ LinesOf(TzCountryFile, name) # {}

\* C6: disambiguateCountries, given a set of exactly two countries that holds
\* both members of a pair of the list, returns the set without the secondary
\* of the first such pair, so that the preferred country alone remains and
\* the row is written for it; any other set is returned unchanged.
C6_DisambiguationDropsSecondary ==
    disOut # <<>> =>
        IF Cardinality(countries) = 2 /\ PairsIn(countries) # {}
        THEN /\ disOut[1].set = countries \ {FirstPairIn(countries)[2]}
             /\ disOut[1].set = {FirstPairIn(countries)[1]}
             /\ disOut[1].line.kind = "row"
             /\ disOut[1].line.val = FirstPairIn(countries)[1]
        ELSE disOut[1].set = countries

\* Two pairs of the list are in the set, with opposite preferences
C6_Witness ==
    /\ disOut # <<>>
    /\ Cardinality(countries) = 2
    /\ Cardinality(PairsIn(countries)) = 2
    /\ disOut[1].line.kind = "row"

----------------------------------------------------------------------------
(* Claims about the tables together *)

\* The identifier at a position of the sorted identifiers of the layer
TzIdAt(i) ==
    CHOOSE t \in LayerTzIds : Cardinality({u \in LayerTzIds : StrLess(u, t)}) = i - 1

\* C8: the data rows of country_timezone_map are in strictly ascending order
\* of country code, the rows of subdivision_timezone_map in ascending order
\* of subdivision code, and the rows of timezone_country_map in strictly
\* ascending order of timezone identifier, which is strictly ascending order
\* of the identifier's Tz enum value.
C8_TablesSortedByKey ==
    /\ CountryFile \in DOMAIN files =>
        \A i, j \in 1..Len(files[CountryFile]) :
            i < j => StrLess(files[CountryFile][i].key, files[CountryFile][j].key)
    /\ SubdivFile \in DOMAIN files =>
        \A i, j \in 1..Len(files[SubdivFile]) :
            i < j => ~StrLess(files[SubdivFile][j].key, files[SubdivFile][i].key)
    /\ TzCountryFile \in DOMAIN files =>
        /\ Len(files[TzCountryFile]) = Cardinality(LayerTzIds)
        /\ \A i \in 1..Len(files[TzCountryFile]) :
            files[TzCountryFile][i].key = tzIdToEnum(TzIdAt(i))
    /\ TzCountryFile \in DOMAIN files /\ NamesFile \in DOMAIN files =>
        \A i, j \in 1..Len(files[TzCountryFile]) :
            /\ files[NamesFile][i].name = files[TzCountryFile][i].key
            /\ i < j => files[NamesFile][i].value < files[NamesFile][j].value

\* The four files are written, with rows of two subdivisions and of two
\* timezones
C8_Witness ==
    /\ \A t \in Tasks : result[t] = "ok"
    /\ \E i, j \in 1..Len(files[SubdivFile]) :
        /\ files[SubdivFile][i].kind = "row"
        /\ files[SubdivFile][j].kind = "row"
        /\ StrLess(files[SubdivFile][i].key, files[SubdivFile][j].key)
    /\ \E i, j \in 1..Len(files[TzCountryFile]) :
        /\ i < j
        /\ files[TzCountryFile][i].kind = "row"
        /\ files[TzCountryFile][j].kind = "row"

EnumNames == {files[NamesFile][i].name : i \in 1..Len(files[NamesFile])}

TzOfRows(file) ==
    {files[file][i].val : i \in {k \in 1..Len(files[file]) : files[file][k].kind = "row"}}

\* C2: every timezone that a data row of country_timezone_map,
\* subdivision_timezone_map or timezone_country_map refers to is an
\* enumerator that the string table task writes into enum Tz.
C2_RowsReferToEnumerators ==
    NamesFile \in DOMAIN files =>
        /\ CountryFile \in DOMAIN files => TzOfRows(CountryFile) \subseteq EnumNames
        /\ SubdivFile \in DOMAIN files => TzOfRows(SubdivFile) \subseteq EnumNames
        /\ TzCountryFile \in DOMAIN files =>
            \A i \in 1..Len(files[TzCountryFile]) :
                files[TzCountryFile][i].kind = "row"
                => files[TzCountryFile][i].key \in EnumNames

\* C7: a run of a task over the unchanged layers and maps leaves every file
\* written before as it was, whatever the earlier runs left in the context
\* and whatever order the sets are iterated in.
C7_RunsRewriteSameFiles ==
    [][\A f \in DOMAIN files : f \in DOMAIN files' /\ files'[f] = files[f]]_vars

\* Every task has run twice, over a subdivision whose two timezones have the
\* same area
C7_Witness ==
    /\ \A t \in Tasks : runs[t] = 2 /\ result[t] = "ok"
    /\ \E i \in 1..(Len(files[SubdivFile]) - 1) :
        /\ files[SubdivFile][i].kind = "row"
        /\ files[SubdivFile][i + 1].kind = "row"
        /\ files[SubdivFile][i].key = files[SubdivFile][i + 1].key

MapKeys == {"countryToTimezoneMap", "subdivisionToTimezoneMap"}

\* The inputs on which the region task raises KeyError
FaultyRegionInput ==
    \/ "subdivLayer" \notin DOMAIN context
    \/ \E k \in 1..Len(SubdivLayer) :
        \A i \in 1..Len(CountryLayer) :
            CountryLayer[i].code # Prefix2(SubdivLayer[k].code)

\* C9: the string table task and the timezone to country task leave the
\* context as it is; a run of the region task that completes sets exactly
\* the keys countryToTimezoneMap and subdivisionToTimezoneMap, with both of
\* its files written; a run of the region task that faults (no subdivLayer
\* key, or a subdivision whose prefix is no country code of the layer)
\* leaves the context as it is.
C9_ContextFrame ==
    [][/\ runs'["string"] # runs["string"] \/ runs'["tzcountry"] # runs["tzcountry"]
          => context' = context
       /\ runs'["region"] # runs["region"]
          => IF FaultyRegionInput
             THEN /\ result'["region"] # "ok"
                  /\ context' = context
             ELSE /\ result'["region"] = "ok"
                  /\ DOMAIN context' = DOMAIN context \cup MapKeys
                  /\ \A k \in DOMAIN context \ MapKeys : context'[k] = context[k]
                  /\ {CountryFile, SubdivFile} \subseteq DOMAIN files'
      ]_vars

\* The region task has faulted on a subdivision of an unknown country after
\* writing the country table, and the other tasks have run
C9_Witness ==
    /\ result["region"] = "KeyError"
    /\ "subdivLayer" \in DOMAIN context
    /\ CountryFile \in DOMAIN files
    /\ SubdivFile \notin DOMAIN files
    /\ \E i \in 1..Len(files[CountryFile]) : files[CountryFile][i].kind = "row"
    /\ result["string"] = "ok"
    /\ result["tzcountry"] = "ok"
    /\ DOMAIN context \cap MapKeys = {}

====
